---- MODULE Spec2Model ----
(***************************************************************************)
(* Model of package logger (logger.go): FileLoggerConfig.InitDefaults,     *)
(* Config.BuildLogger, ColoredLevelEncoder and ColoredNameEncoder.         *)
(*                                                                         *)
(* Strings that the code inspects character by character (the level text,  *)
(* logger names) are sequences of one-character strings, so that case      *)
(* folding and padding are computed.  Strings that are only compared or    *)
(* tested for emptiness (paths, encoding names, line endings) are TLA+     *)
(* strings.  A Go pointer that may be nil is a sequence of length 0 or 1.  *)
(***************************************************************************)
EXTENDS Integers, Sequences, FiniteSets, TLC

VARIABLES
    cfg,      \* the caller's *Config, with the *FileLoggerConfig it points to
    orig,     \* the Config as the caller constructed it (history)
    pre,      \* the Config at entry of the last call (history)
    calls,    \* the calls made on cfg so far, oldest first (history)
    zCfg,     \* BuildLogger's local zap.Config when it returned
    ret,      \* what the last BuildLogger returned: (*zap.Logger, error)
    TMPDIR,   \* the process environment variable read by os.TempDir
    enc,      \* the zapcore.PrimitiveArrayEncoder the callbacks append to
    encCall   \* the last encoder callback: its arguments, enc at entry (history)

vars == <<cfg, orig, pre, calls, zCfg, ret, TMPDIR, enc, encCall>>

\* ------------------------------------------------------------------ bounds

\* calls made on one Config value
MaxCalls == 2
\* FileLoggerConfig's int fields range over -MaxField..MaxField
MaxField == 1
\* bytes in a logger name
MaxNameLen == 14
\* strings appended to one array encoder
MaxEnc == 2

\* ------------------------------------------------------------ zap's levels

DebugLevel == -1
InfoLevel == 0
WarnLevel == 1
ErrorLevel == 2
DPanicLevel == 3
PanicLevel == 4
FatalLevel == 5

Levels == DebugLevel..FatalLevel

\* ------------------------------------------------------------------ strings

Uppers == <<"A","B","C","D","E","F","G","H","I","J","K","L","M",
            "N","O","P","Q","R","S","T","U","V","W","X","Y","Z">>
Lowers == <<"a","b","c","d","e","f","g","h","i","j","k","l","m",
            "n","o","p","q","r","s","t","u","v","w","x","y","z">>

ToLowerChar(c) ==
    IF \E i \in 1..26 : Uppers[i] = c
    THEN Lowers[CHOOSE i \in 1..26 : Uppers[i] = c]
    ELSE c

ToUpperChar(c) ==
    IF \E i \in 1..26 : Lowers[i] = c
    THEN Uppers[CHOOSE i \in 1..26 : Lowers[i] = c]
    ELSE c

\* bytes.ToLower
ToLower(s) == [i \in 1..Len(s) |-> ToLowerChar(s[i])]

\* strings.Repeat
Repeat(c, n) == [i \in 1..n |-> c]

\* the lower-case names zapcore.Level.unmarshalText accepts, with their level
LevelNames ==
    << <<"d","e","b","u","g">>,
       <<"i","n","f","o">>,
       <<"w","a","r","n">>,
       <<"e","r","r","o","r">>,
       <<"d","p","a","n","i","c">>,
       <<"p","a","n","i","c">>,
       <<"f","a","t","a","l">> >>

LevelOfIndex(i) == i - 2

ToUpper(s) == [i \in 1..Len(s) |-> ToUpperChar(s[i])]

\* the upper-case spellings of the same names
LevelNamesUpper == [i \in 1..Len(LevelNames) |-> ToUpper(LevelNames[i])]

\* zapcore.Level.CapitalString
CapitalString(level) == LevelNamesUpper[level + 2]

\* zapcore.Level.unmarshalText: the exact lower-case and upper-case spellings
\* (and the empty text, which is InfoLevel); no other spelling matches.
unmarshalText(text) ==
    LET hit == { i \in 1..Len(LevelNames) :
                    text = LevelNames[i] \/ text = LevelNamesUpper[i] }
    IN  IF text = <<>> THEN [ok |-> TRUE, level |-> InfoLevel]
        ELSE IF hit # {}
        THEN [ok |-> TRUE, level |-> LevelOfIndex(CHOOSE i \in hit : TRUE)]
        ELSE [ok |-> FALSE, level |-> InfoLevel]

\* a plausible slip: the text is matched as written only
UnmarshalText_CaseSensitive(text) == unmarshalText(text)

\* AtomicLevel.UnmarshalText: the text as written, else folded to lower case
UnmarshalText(text) ==
    LET exact == unmarshalText(text)
    IN  IF exact.ok THEN exact ELSE unmarshalText(ToLower(text))

\* --------------------------------------------------------- FileLoggerConfig

\* os.TempDir on Unix: $TMPDIR when it is set and non-empty, else "/tmp"
TempDir(env) == IF env # "" THEN env ELSE "/tmp"

\* a plausible slip: MaxAge is left at zero, as the field's comment describes
InitDefaults_NoAge(fl, env) ==
    [fl EXCEPT
        !.LogOutput  = IF fl.LogOutput = "" THEN TempDir(env) ELSE @,
        !.MaxSize    = IF fl.MaxSize = 0 THEN 100 ELSE @,
        !.MaxBackups = IF fl.MaxBackups = 0 THEN 10 ELSE @]

\* FileLoggerConfig.InitDefaults: the receiver after the call
InitDefaults(fl, env) ==
    [fl EXCEPT
        !.LogOutput  = IF fl.LogOutput = "" THEN TempDir(env) ELSE @,
        !.MaxSize    = IF fl.MaxSize = 0 THEN 100 ELSE @,
        !.MaxAge     = IF fl.MaxAge = 0 THEN 24 ELSE @,
        !.MaxBackups = IF fl.MaxBackups = 0 THEN 10 ELSE @]

\* ------------------------------------------------------------- BuildLogger

\* zapcore.DefaultLineEnding
DefaultLineEnding == "\n"

\* zapcore.OmitKey
OmitKey == ""

\* the text "DEBUG" and "INFO" the code stores into cfg.Level
DEBUG == <<"D","E","B","U","G">>
INFO == <<"I","N","F","O">>

\* cfg.LineEnding after the defaulting of lines 90-92
ResolveLineEnding(lineEnding) ==
    IF lineEnding = "" THEN DefaultLineEnding ELSE lineEnding

\* a plausible slip: the production template copies the debug template's level
TemplateLevel_AlwaysDebug(debug) == DebugLevel

\* Level of the zap.Config literal (lines 97, 120)
TemplateLevel(debug) == IF debug THEN DebugLevel ELSE InfoLevel

\* Encoding of the zap.Config literal (lines 99, 122)
TemplateEncoding(debug) == IF debug THEN "console" ELSE "json"

\* EncoderConfig of the zap.Config literal (lines 100-114, 123-136); the
\* encoder callbacks are named, a field the literal leaves out is ""
TemplateEncoderConfig(debug, lineEnding) ==
    [TimeKey        |-> "ts",
     LevelKey       |-> "level",
     NameKey        |-> "logger",
     CallerKey      |-> OmitKey,
     FunctionKey    |-> OmitKey,
     MessageKey     |-> "msg",
     StacktraceKey  |-> OmitKey,
     LineEnding     |-> lineEnding,
     EncodeLevel    |-> IF debug THEN "ColoredLevelEncoder"
                                 ELSE "LowercaseLevelEncoder",
     EncodeName     |-> IF debug THEN "ColoredNameEncoder" ELSE "",
     EncodeTime     |-> IF debug THEN "ISO8601TimeEncoder"
                                 ELSE "EpochTimeEncoder",
     EncodeDuration |-> IF debug THEN "StringDurationEncoder"
                                 ELSE "SecondsDurationEncoder",
     EncodeCaller   |-> "ShortCallerEncoder"]

\* the zap.Config literal chosen by debug (lines 94-140)
Template(debug, lineEnding) ==
    [Level            |-> TemplateLevel(debug),
     Development      |-> debug,
     Encoding         |-> TemplateEncoding(debug),
     EncoderConfig    |-> TemplateEncoderConfig(debug, lineEnding),
     OutputPaths      |-> <<"stderr">>,
     ErrorOutputPaths |-> <<"stderr">>]

\* a plausible slip: the configured level wins over the debug flag
LevelField_ConfigFirst(level, debug) ==
    IF level # <<>> THEN level
    ELSE IF debug THEN DEBUG ELSE INFO

\* a plausible slip: the level is not written back in debug mode
LevelField_KeepInDebug(level, debug) ==
    IF level = <<>> THEN (IF debug THEN DEBUG ELSE INFO) ELSE level

\* cfg.Level after lines 142-146
LevelField(level, debug) ==
    IF debug THEN DEBUG
    ELSE IF level = <<>> THEN INFO
    ELSE level

\* zCfg.Level after lines 148-151: the parsed level, else the template's
ResolveLevel(tmplLevel, text) ==
    LET parsed == UnmarshalText(text)
    IN  IF parsed.ok THEN parsed.level ELSE tmplLevel

\* zCfg.Encoding after lines 153-155
ResolveEncoding(tmplEncoding, encoding) ==
    IF encoding # "" THEN encoding ELSE tmplEncoding

\* zCfg.OutputPaths after lines 157-159
ResolveOutputPaths(tmplPaths, output) ==
    IF Len(output) # 0 THEN output ELSE tmplPaths

\* a plausible slip: the configured error paths are dropped
ResolveErrorOutputPaths_Ignored(tmplPaths, errorOutput) == tmplPaths

\* zCfg.ErrorOutputPaths after lines 161-163
ResolveErrorOutputPaths(tmplPaths, errorOutput) ==
    IF Len(errorOutput) # 0 THEN errorOutput ELSE tmplPaths

\* the receiver after the write-backs of lines 90-92, 142-146 and 170
WriteBack(c, debug, env) ==
    [c EXCEPT
        !.LineEnding = ResolveLineEnding(@),
        !.Level      = LevelField(@, debug),
        !.FileLogger = IF @ = <<>> THEN @ ELSE <<InitDefaults(@[1], env)>>]

\* the local zCfg at line 164, from the receiver as written back
Resolve(c, debug) ==
    LET t == Template(debug, c.LineEnding)
    IN  [t EXCEPT
            !.Level            = ResolveLevel(t.Level, c.Level),
            !.Encoding         = ResolveEncoding(t.Encoding, c.Encoding),
            !.OutputPaths      = ResolveOutputPaths(t.OutputPaths, c.Output),
            !.ErrorOutputPaths =
                ResolveErrorOutputPaths(t.ErrorOutputPaths, c.ErrorOutput)]

\* ------------------------------------------------------- the zap backend

\* encoders registered with zap
RegisteredEncoders == {"json", "console"}

\* zap.Open succeeds on stdout, stderr and a file it can create; a URL whose
\* scheme has no registered sink factory is rejected
SinkOpens(path) == path \in {"stdout", "stderr", "/tmp/app.log", "/tmp/err.log"}

\* the error value nil
NoError == ""

\* zap.Config.Build (line 190): the encoder is built first, then the sinks are
\* opened; the logger has one core and the options Build derives from the
\* template
zapBuild(z) ==
    IF z.Encoding \notin RegisteredEncoders
    THEN [logger |-> <<>>, err |-> "no encoder registered for name"]
    ELSE IF \E i \in 1..Len(z.OutputPaths) : ~SinkOpens(z.OutputPaths[i])
    THEN [logger |-> <<>>, err |-> "open sink"]
    ELSE IF \E i \in 1..Len(z.ErrorOutputPaths) : ~SinkOpens(z.ErrorOutputPaths[i])
    THEN [logger |-> <<>>, err |-> "open sink"]
    ELSE [logger |->
            << [cores |-> << [encoder       |-> z.Encoding,
                              encoderConfig |-> z.EncoderConfig,
                              out           |-> [paths  |-> z.OutputPaths,
                                                 rotate |-> <<>>],
                              level         |-> z.Level] >>,
                errorOutput |-> z.ErrorOutputPaths,
                development |-> z.Development] >>,
          err |-> NoError]

\* the lumberjack.Logger of lines 173-179
Lumberjack(fl) ==
    [Filename   |-> fl.LogOutput,
     MaxSize    |-> fl.MaxSize,
     MaxAge     |-> fl.MaxAge,
     MaxBackups |-> fl.MaxBackups,
     Compress   |-> fl.Compress]

\* a plausible slip: the file core is teed with the configured sinks and keeps
\* the configured encoding
FileLogger_Tee(z, fl) ==
    [cores |-> << [encoder       |-> z.Encoding,
                   encoderConfig |-> z.EncoderConfig,
                   out           |-> [paths  |-> z.OutputPaths,
                                      rotate |-> <<Lumberjack(fl)>>],
                   level         |-> z.Level] >>,
     errorOutput |-> z.ErrorOutputPaths,
     development |-> z.Development]

\* zap.New(core) of lines 172-187: one JSON core over the rotating writer;
\* zap.New without options writes internal errors to stderr
FileLogger(z, fl) ==
    [cores |-> << [encoder       |-> "json",
                   encoderConfig |-> z.EncoderConfig,
                   out           |-> [paths  |-> <<>>,
                                      rotate |-> <<Lumberjack(fl)>>],
                   level         |-> z.Level] >>,
     errorOutput |-> <<"stderr">>,
     development |-> FALSE]

\* a plausible slip: the template is validated before the file logger is built
Return_BuildFirst(z, flp) ==
    IF flp # <<>> /\ zapBuild(z).err = NoError
    THEN [logger |-> <<FileLogger(z, flp[1])>>, err |-> NoError]
    ELSE zapBuild(z)

\* what BuildLogger returns (lines 168-190)
Return(z, flp) ==
    IF flp # <<>>
    THEN [logger |-> <<FileLogger(z, flp[1])>>, err |-> NoError]
    ELSE zapBuild(z)

\* the destinations a record of level l is written to by logger lg: each core
\* whose level enables l writes it to its write syncer
Emits(lg, l) == { lg.cores[i].out : i \in { j \in 1..Len(lg.cores) : l >= lg.cores[j].level } }

\* --------------------------------------------------------------- callbacks

\* a plausible slip: the case lists of the last two arms are grouped by name
LevelColor_ByName(level) ==
    CASE level = DebugLevel -> "HiWhiteString"
      [] level = InfoLevel -> "HiCyanString"
      [] level = WarnLevel -> "HiYellowString"
      [] level \in {ErrorLevel, FatalLevel} -> "HiRedString"
      [] level \in {DPanicLevel, PanicLevel} -> "HiMagentaString"
      [] OTHER -> ""

\* the colour function applied by ColoredLevelEncoder's switch; "" when no
\* case matches
LevelColor(level) ==
    CASE level = DebugLevel -> "HiWhiteString"
      [] level = InfoLevel -> "HiCyanString"
      [] level = WarnLevel -> "HiYellowString"
      [] level \in {ErrorLevel, DPanicLevel} -> "HiRedString"
      [] level \in {PanicLevel, FatalLevel} -> "HiMagentaString"
      [] OTHER -> ""

\* ColoredLevelEncoder: the encoder's array after the call
AppendLevel(e, level) ==
    IF LevelColor(level) = "" THEN e
    ELSE Append(e, [fn |-> LevelColor(level), arg |-> CapitalString(level)])

\* a plausible slip: an off-by-one in the padding width
PadName_OffByOne(s) ==
    IF Len(s) < 12 THEN s \o Repeat(" ", 11 - Len(s)) ELSE s

\* the argument of color.HiGreenString in ColoredNameEncoder (lines 211-213)
PadName(s) ==
    IF Len(s) < 12 THEN s \o Repeat(" ", 12 - Len(s)) ELSE s

\* ColoredNameEncoder: the encoder's array after the call
AppendName(e, s) == Append(e, [fn |-> "HiGreenString", arg |-> PadName(s)])

\* ------------------------------------------------------------------ inputs

\* level texts a caller may configure: empty, known names in several letter
\* cases, and texts that are no level name
LevelTexts ==
    { <<>>,
      <<"d","e","b","u","g">>, <<"D","E","B","U","G">>,
      <<"I","n","f","o">>,
      <<"w","a","r","n">>, <<"W","A","R","N">>, <<"W","a","r","n">>,
      <<"E","R","R","O","R">>,
      <<"d","p","a","n","i","c">>,
      <<"P","a","n","i","c">>,
      <<"f","a","t","a","L">>,
      <<"v","e","r","b","o","s","e">>,
      <<"w","a","r","n"," ">> }

LineEndings == {"", "\r\n"}
Encodings == {"", "json", "console", "xml"}
Outputs == { <<>>, <<"stdout">>, <<"bad://x">> }
ErrorOutputs == { <<>>, <<"/tmp/err.log">>, <<"bad://y">> }
TmpDirs == {"", "/var/tmp"}

FileLoggerConfigs(fields) ==
    [LogOutput  : {"", "/tmp/x.log"},
     MaxSize    : fields,
     MaxAge     : fields,
     MaxBackups : fields,
     Compress   : BOOLEAN]

\* nil, the zero value, a fully set value and a partly set one
SomeFileLoggers ==
    { <<>>,
      << [LogOutput |-> "", MaxSize |-> 0, MaxAge |-> 0, MaxBackups |-> 0,
          Compress |-> FALSE] >>,
      << [LogOutput |-> "/tmp/x.log", MaxSize |-> 5, MaxAge |-> 7,
          MaxBackups |-> 3, Compress |-> TRUE] >>,
      << [LogOutput |-> "/tmp/x.log", MaxSize |-> 0, MaxAge |-> 0,
          MaxBackups |-> 0, Compress |-> FALSE] >> }

Configs ==
    [Level       : LevelTexts,
     LineEnding  : LineEndings,
     Encoding    : Encodings,
     Output      : Outputs,
     ErrorOutput : ErrorOutputs,
     FileLogger  : SomeFileLoggers]

FileConfigs ==
    [Level       : { <<>>, <<"w","a","r","n">> },
     LineEnding  : {""},
     Encoding    : {""},
     Output      : { <<>> },
     ErrorOutput : { <<>> },
     FileLogger  : { <<f>> : f \in FileLoggerConfigs(-MaxField..MaxField) }]

\* logger names: letters, with a trailing or a leading space
Names ==
    { Repeat("a", n) : n \in 0..MaxNameLen }
    \cup { Repeat("a", n) \o <<" ">> : n \in 0..(MaxNameLen - 1) }
    \cup { <<" ">> \o Repeat("b", n) : n \in 0..(MaxNameLen - 1) }

\* the levels of the enumeration and one value on each side of it
LevelValues == (DebugLevel - 1)..(FatalLevel + 1)

\* ------------------------------------------------------------------ actions

NoCall == [op |-> "", level |-> InfoLevel, s |-> <<>>, before |-> <<>>]

InitWith(configs) ==
    /\ cfg \in configs
    /\ orig = cfg
    /\ pre = cfg
    /\ calls = <<>>
    /\ zCfg = <<>>
    /\ ret = [logger |-> <<>>, err |-> NoError]
    /\ TMPDIR \in TmpDirs
    /\ enc = <<>>
    /\ encCall = NoCall

\* cfg.BuildLogger(debug)
BuildLogger(debug) ==
    /\ Len(calls) < MaxCalls
    /\ LET c == WriteBack(cfg, debug, TMPDIR)
           z == Resolve(c, debug)
       IN  /\ cfg' = c
           /\ zCfg' = <<z>>
           /\ ret' = Return(z, c.FileLogger)
    /\ pre' = cfg
    /\ calls' = Append(calls, [op |-> "BuildLogger", debug |-> debug])
    /\ UNCHANGED <<orig, TMPDIR, enc, encCall>>

\* cfg.FileLogger.InitDefaults() called by the caller itself
CallInitDefaults ==
    /\ Len(calls) < MaxCalls
    /\ cfg.FileLogger # <<>>
    /\ cfg' = [cfg EXCEPT !.FileLogger = <<InitDefaults(@[1], TMPDIR)>>]
    /\ pre' = cfg
    /\ calls' = Append(calls, [op |-> "InitDefaults", debug |-> FALSE])
    /\ UNCHANGED <<orig, zCfg, ret, TMPDIR, enc, encCall>>

\* ColoredLevelEncoder(level, enc)
ColoredLevelEncoder(level) ==
    /\ Len(enc) < MaxEnc
    /\ enc' = AppendLevel(enc, level)
    /\ encCall' = [op |-> "ColoredLevelEncoder", level |-> level, s |-> <<>>,
                   before |-> enc]
    /\ UNCHANGED <<cfg, orig, pre, calls, zCfg, ret, TMPDIR>>

\* ColoredNameEncoder(s, enc)
ColoredNameEncoder(s) ==
    /\ Len(enc) < MaxEnc
    /\ enc' = AppendName(enc, s)
    /\ encCall' = [op |-> "ColoredNameEncoder", level |-> InfoLevel, s |-> s,
                   before |-> enc]
    /\ UNCHANGED <<cfg, orig, pre, calls, zCfg, ret, TMPDIR>>

\* ------------------------------------------------------------ specifications

\* BuildLogger called repeatedly on one Config
Init == InitWith(Configs)
Next == \E debug \in BOOLEAN : BuildLogger(debug)
Spec == Init /\ [][Next]_vars

\* a Config with a file logger: InitDefaults and BuildLogger
InitFL == InitWith(FileConfigs)
NextFL ==
    \/ CallInitDefaults
    \/ \E debug \in BOOLEAN : BuildLogger(debug)
SpecFL == InitFL /\ [][NextFL]_vars

\* the encoder callbacks on one array encoder
InitEnc ==
    InitWith({ [Level |-> <<>>, LineEnding |-> "", Encoding |-> "",
                Output |-> <<>>, ErrorOutput |-> <<>>, FileLogger |-> <<>>] })
NextEnc ==
    \/ \E level \in LevelValues : ColoredLevelEncoder(level)
    \/ \E s \in Names : ColoredNameEncoder(s)
SpecEnc == InitEnc /\ [][NextEnc]_vars

\* ---------------------------------------------------------------- properties

\* the severity names and ranks, written out: lower case, upper case, rank
Severities ==
    << [lo |-> <<"d","e","b","u","g">>,     up |-> <<"D","E","B","U","G">>,     rank |-> -1],
       [lo |-> <<"i","n","f","o">>,         up |-> <<"I","N","F","O">>,         rank |-> 0],
       [lo |-> <<"w","a","r","n">>,         up |-> <<"W","A","R","N">>,         rank |-> 1],
       [lo |-> <<"e","r","r","o","r">>,     up |-> <<"E","R","R","O","R">>,     rank |-> 2],
       [lo |-> <<"d","p","a","n","i","c">>, up |-> <<"D","P","A","N","I","C">>, rank |-> 3],
       [lo |-> <<"p","a","n","i","c">>,     up |-> <<"P","A","N","I","C">>,     rank |-> 4],
       [lo |-> <<"f","a","t","a","l">>,     up |-> <<"F","A","T","A","L">>,     rank |-> 5] >>

\* the severities that text names, in any letter case
NamedBy(text) ==
    { i \in 1..Len(Severities) :
        /\ Len(text) = Len(Severities[i].lo)
        /\ \A k \in 1..Len(text) :
              text[k] \in {Severities[i].lo[k], Severities[i].up[k]} }

LastCall == calls[Len(calls)]
LastBuild(debug) ==
    /\ calls # <<>>
    /\ LastCall = [op |-> "BuildLogger", debug |-> debug]
LastBuildAny == LastBuild(TRUE) \/ LastBuild(FALSE)

\* the returned logger emits exactly the records of level min and above
EmitsFrom(min) ==
    ret.logger # <<>> =>
        \A l \in Levels : (Emits(ret.logger[1], l) # {}) <=> (l >= min)

\* C1: BuildLogger(debug=true) resolves minimum level DEBUG for every Config,
\* whatever its Level text and whether or not FileLogger is set.
C1_DebugForcesDebug ==
    LastBuild(TRUE) =>
        /\ zCfg[1].Level = DebugLevel
        /\ EmitsFrom(DebugLevel)

C1_Witness ==
    /\ LastBuild(TRUE)
    /\ pre.Level = <<"W","A","R","N">>
    /\ pre.FileLogger # <<>>
    /\ ret.logger # <<>>
    /\ ret.logger[1].cores[1].level = DebugLevel

\* C2: BuildLogger(debug=false) resolves INFO for an empty Level, and for a
\* Level naming a severity in any letter case it resolves that severity: the
\* logger emits the records at or above it and no record below it.
C2_LevelResolved ==
    LastBuild(FALSE) =>
        /\ pre.Level = <<>> => (zCfg[1].Level = InfoLevel /\ EmitsFrom(InfoLevel))
        /\ \A i \in NamedBy(pre.Level) :
              /\ zCfg[1].Level = Severities[i].rank
              /\ EmitsFrom(Severities[i].rank)

C2_Witness ==
    /\ LastBuild(FALSE)
    /\ pre.Level = <<"W","a","r","n">>
    /\ zCfg[1].Level = WarnLevel
    /\ ret.logger # <<>>
    /\ Emits(ret.logger[1], InfoLevel) = {}
    /\ Emits(ret.logger[1], ErrorLevel) # {}

\* C3: BuildLogger(debug=false) with a non-empty Level that names no severity
\* resolves the template's INFO, and returns an error only when the backend
\* build fails, that error being the backend's.
C3_BadLevelTolerated ==
    (LastBuild(FALSE) /\ pre.Level # <<>> /\ NamedBy(pre.Level) = {}) =>
        /\ zCfg[1].Level = InfoLevel
        /\ EmitsFrom(InfoLevel)
        /\ ret.err # NoError =>
              /\ pre.FileLogger = <<>>
              /\ ret.err = zapBuild(zCfg[1]).err

C3_Witness ==
    /\ LastBuild(FALSE)
    /\ pre.Level = <<"v","e","r","b","o","s","e">>
    /\ ret.err = NoError
    /\ ret.logger # <<>>
    /\ zCfg[1].Level = InfoLevel
    /\ Emits(ret.logger[1], DebugLevel) = {}
    /\ Emits(ret.logger[1], InfoLevel) # {}

\* C4: with FileLogger set, the returned logger has exactly one core: the JSON
\* encoder over the resolved encoder settings, at the resolved level, writing
\* to the rotating writer only; the configured Output, ErrorOutput and
\* Encoding are not used, for either value of debug.
C4_FileLoggerOnly ==
    (LastBuildAny /\ pre.FileLogger # <<>>) =>
        /\ ret.logger # <<>>
        /\ Len(ret.logger[1].cores) = 1
        /\ LET core == ret.logger[1].cores[1]
           IN  /\ core.encoder = "json"
               /\ core.encoderConfig = zCfg[1].EncoderConfig
               /\ core.level = zCfg[1].Level
               /\ core.out.paths = <<>>
               /\ Len(core.out.rotate) = 1
               /\ core.out.rotate[1].Filename = cfg.FileLogger[1].LogOutput
        /\ \A l \in Levels : \A d \in Emits(ret.logger[1], l) :
              d.paths = <<>> /\ d.rotate # <<>>
        /\ ret.logger[1].errorOutput = <<"stderr">>

C4_Witness ==
    /\ LastBuild(TRUE)
    /\ pre.FileLogger # <<>>
    /\ pre.Output = <<"stdout">>
    /\ pre.ErrorOutput = <<"/tmp/err.log">>
    /\ pre.Encoding = "console"
    /\ ret.logger # <<>>
    /\ ret.logger[1].cores[1].encoder = "json"
    /\ ret.logger[1].cores[1].out.paths = <<>>

C6_ErrorsFromBackendOnly ==
    LastBuildAny =>
        /\ pre.FileLogger # <<>> => ret.err = NoError
        /\ ret.err # NoError =>
              /\ ret.logger = <<>>
              /\ ret.err = zapBuild(zCfg[1]).err
              /\ \/ zCfg[1].Encoding \notin RegisteredEncoders
                 \/ \E i \in 1..Len(zCfg[1].OutputPaths) :
                        ~SinkOpens(zCfg[1].OutputPaths[i])
                 \/ \E i \in 1..Len(zCfg[1].ErrorOutputPaths) :
                        ~SinkOpens(zCfg[1].ErrorOutputPaths[i])
        /\ (/\ pre.FileLogger = <<>>
            /\ pre.Encoding \in {"", "json", "console"}
            /\ pre.Output \in { <<>>, <<"stdout">> }
            /\ pre.ErrorOutput \in { <<>>, <<"/tmp/err.log">> }) => ret.err = NoError

C6_Witness ==
    /\ LastBuild(FALSE)
    /\ pre.FileLogger = <<>>
    /\ pre.Level = <<"v","e","r","b","o","s","e">>
    /\ pre.Encoding = ""
    /\ pre.Output = <<"bad://x">>
    /\ ret.err = "open sink"
    /\ ret.logger = <<>>

\* the last callback appended exactly one string to the encoder
AppendedOne ==
    /\ Len(enc) = Len(encCall.before) + 1
    /\ \A i \in 1..Len(encCall.before) : enc[i] = encCall.before[i]

Appended == enc[Len(enc)]

\* C7: ColoredNameEncoder appends exactly one string; the string given to the
\* colour function has max(12, len(s)) bytes, begins with s and continues with
\* spaces only (lengths are Go's len, that is bytes).
C7_NamePadded ==
    encCall.op = "ColoredNameEncoder" =>
        /\ AppendedOne
        /\ Appended.fn = "HiGreenString"
        /\ Len(Appended.arg) = (IF Len(encCall.s) > 12 THEN Len(encCall.s) ELSE 12)
        /\ \A i \in 1..Len(encCall.s) : Appended.arg[i] = encCall.s[i]
        /\ \A i \in (Len(encCall.s) + 1)..Len(Appended.arg) : Appended.arg[i] = " "

C7_Witness ==
    /\ encCall.op = "ColoredNameEncoder"
    /\ encCall.s = <<"a","a","a","a"," ">>
    /\ Len(encCall.before) = 1
    /\ Len(enc) = 2
    /\ Appended.arg = <<"a","a","a","a"," "," "," "," "," "," "," "," ">>

\* the colour table read from the words of the claim: error and fatal are the
\* severe levels, dpanic and panic the panic tier
ColourAsWorded(level) ==
    CASE level = -1 -> "HiWhiteString"
      [] level = 0 -> "HiCyanString"
      [] level = 1 -> "HiYellowString"
      [] level \in {2, 5} -> "HiRedString"
      [] level \in {3, 4} -> "HiMagentaString"

\* the colour table with the levels named
ColourByLevel(level) ==
    CASE level = -1 -> "HiWhiteString"
      [] level = 0 -> "HiCyanString"
      [] level = 1 -> "HiYellowString"
      [] level \in {2, 3} -> "HiRedString"
      [] level \in {4, 5} -> "HiMagentaString"

\* C8 as stated: for each level of the enumeration ColoredLevelEncoder appends
\* exactly one string, the capitalized name, in bright white for debug, bright
\* cyan for info, bright yellow for warn, bright red for error and the
\* fatal-like levels, bright magenta for the panic tier.
C8_AsWorded ==
    (encCall.op = "ColoredLevelEncoder" /\ encCall.level \in Levels) =>
        /\ AppendedOne
        /\ Appended.arg = Severities[encCall.level + 2].up
        /\ Appended.fn = ColourAsWorded(encCall.level)

\* C8 amended: for each level of the enumeration ColoredLevelEncoder appends
\* exactly one string, the capitalized name, in bright white for debug, bright
\* cyan for info, bright yellow for warn, bright red for error and dpanic,
\* bright magenta for panic and fatal.
C8_LevelColoured ==
    (encCall.op = "ColoredLevelEncoder" /\ encCall.level \in Levels) =>
        /\ AppendedOne
        /\ Appended.arg = Severities[encCall.level + 2].up
        /\ Appended.fn = ColourByLevel(encCall.level)

C8_Witness ==
    /\ encCall.op = "ColoredLevelEncoder"
    /\ encCall.level = FatalLevel
    /\ AppendedOne
    /\ Appended = [fn |-> "HiMagentaString", arg |-> <<"F","A","T","A","L">>]

\* C9: without FileLogger the template given to the backend has, each on its
\* own, Encoding = cfg.Encoding or else console/json by debug, OutputPaths =
\* cfg.Output or else stderr, ErrorOutputPaths = cfg.ErrorOutput or else
\* stderr; the minimum level is a function of debug and Level alone; and what
\* BuildLogger returns is the backend's build of that template.
C9_TemplateFields ==
    \A debug \in BOOLEAN :
        (LastBuild(debug) /\ pre.FileLogger = <<>>) =>
            /\ zCfg[1].Encoding =
                  (IF pre.Encoding # "" THEN pre.Encoding
                   ELSE IF debug THEN "console" ELSE "json")
            /\ zCfg[1].OutputPaths =
                  (IF pre.Output # <<>> THEN pre.Output ELSE <<"stderr">>)
            /\ zCfg[1].ErrorOutputPaths =
                  (IF pre.ErrorOutput # <<>> THEN pre.ErrorOutput ELSE <<"stderr">>)
            /\ zCfg[1].Level =
                  (IF debug THEN -1
                   ELSE IF NamedBy(pre.Level) = {} THEN 0
                   ELSE Severities[CHOOSE i \in NamedBy(pre.Level) : TRUE].rank)
            /\ ret = zapBuild(zCfg[1])
            /\ ret.logger # <<>> =>
                  /\ ret.logger[1].cores[1].encoder = zCfg[1].Encoding
                  /\ ret.logger[1].cores[1].out.paths = zCfg[1].OutputPaths
                  /\ ret.logger[1].errorOutput = zCfg[1].ErrorOutputPaths

C9_Witness ==
    /\ LastBuild(TRUE)
    /\ pre.FileLogger = <<>>
    /\ pre.Encoding = ""
    /\ pre.Output = <<"stdout">>
    /\ pre.ErrorOutput = <<"/tmp/err.log">>
    /\ zCfg[1].Encoding = "console"
    /\ zCfg[1].OutputPaths = <<"stdout">>
    /\ zCfg[1].ErrorOutputPaths = <<"/tmp/err.log">>
    /\ ret.logger # <<>>

\* C10: BuildLogger writes back into the Config: after any call LineEnding and
\* Level are not empty; after BuildLogger(debug=true) Level is "DEBUG"; so a
\* BuildLogger(debug=false) after an earlier BuildLogger(debug=true) on the
\* same Config resolves DEBUG; Encoding, Output and ErrorOutput never change.
C10_WriteBack ==
    /\ cfg.Encoding = orig.Encoding
    /\ cfg.Output = orig.Output
    /\ cfg.ErrorOutput = orig.ErrorOutput
    /\ LastBuildAny => (cfg.LineEnding # "" /\ cfg.Level # <<>>)
    /\ LastBuild(TRUE) => cfg.Level = <<"D","E","B","U","G">>
    /\ (/\ LastBuild(FALSE)
        /\ \E i \in 1..(Len(calls) - 1) : calls[i].debug) =>
            /\ cfg.Level = <<"D","E","B","U","G">>
            /\ zCfg[1].Level = DebugLevel
            /\ EmitsFrom(DebugLevel)

C10_Witness ==
    /\ calls = << [op |-> "BuildLogger", debug |-> TRUE],
                  [op |-> "BuildLogger", debug |-> FALSE] >>
    /\ orig.Level = <<"w","a","r","n">>
    /\ cfg.Level = <<"D","E","B","U","G">>
    /\ zCfg[1].Level = DebugLevel
    /\ ret.logger # <<>>
    /\ Emits(ret.logger[1], DebugLevel) # {}

====
